---- MODULE Spec2Model ----
(***************************************************************************)
(* Model of the Rust code generator of concerto-codegen                    *)
(* (lib/codegen/fromcto/rust/rustvisitor.js, class RustVisitor).           *)
(*                                                                         *)
(* A JavaScript string is a sequence of tokens; an identifier that the     *)
(* code inspects character by character is a sequence of one-character     *)
(* tokens, and string concatenation is \o.  A line handed to the file      *)
(* writer is a record [tabs, text].                                        *)
(***************************************************************************)
EXTENDS Integers, Sequences, FiniteSets, TLC

VARIABLES
    input,       \* toValidRustName: the argument
    result,      \* toValidRustName: the local variable `result`
    npc,         \* toValidRustName: position in the function
    pc,          \* visitModelManager / visitModelFile: position in the run
    ctx,         \* parameters.fileWriter, and the exception in flight
    namespaces,  \* modelManager.getNamespaces()
    idx,         \* index of the namespace / model file being processed
    modelFile,   \* the model file being visited
    didx,        \* index of the declaration being dispatched
    dispatched,  \* declarations handed to visit() for the current model file
    node         \* the declaration or property handed to visit()

vars == <<input, result, npc, pc, ctx, namespaces, idx, modelFile, didx, dispatched, node>>

----------------------------------------------------------------------------
(* Bounds of the model.                                                    *)

MaxLen == 3        \* longest string given to toValidRustName
MaxFiles == 2      \* most namespaces in the model manager
MaxImports == 2    \* most imports of one model file
MaxDecls == 2      \* most declarations of one model file
MaxProps == 2      \* most properties of one class declaration

----------------------------------------------------------------------------
(* Strings.                                                                *)

\* const keywords = [...]
keywords == <<
    <<"a","b","s","t","r","a","c","t">>, <<"a","s">>, <<"a","s","y","n","c">>,
    <<"a","w","a","i","t">>, <<"b","e","c","o","m","e">>, <<"b","o","x">>, <<"b","r","e","a","k">>,
    <<"c","o","n","s","t">>, <<"c","o","n","t","i","n","u","e">>, <<"c","r","a","t","e">>,
    <<"d","o">>, <<"d","y","n">>, <<"e","l","s","e">>, <<"e","n","u","m">>,
    <<"e","x","t","e","r","n">>, <<"f","a","l","s","e">>, <<"f","i","n","a","l">>, <<"f","n">>,
    <<"f","o","r">>, <<"i","f">>, <<"i","m","p","l">>, <<"i","n">>, <<"l","e","t">>,
    <<"l","o","o","p">>, <<"m","a","c","r","o">>, <<"m","a","t","c","h">>, <<"m","o","d">>,
    <<"m","o","v","e">>, <<"m","u","t">>, <<"o","v","e","r","r","i","d","e">>, <<"p","r","i","v">>,
    <<"p","u","b">>, <<"r","e","f">>, <<"r","e","t","u","r","n">>, <<"s","e","l","f">>,
    <<"s","t","a","t","i","c">>, <<"s","t","r","u","c","t">>, <<"s","u","p","e","r">>,
    <<"t","r","a","i","t">>, <<"t","r","u","e">>, <<"t","r","y">>, <<"t","y","p","e">>,
    <<"t","y","p","e","o","f">>, <<"u","n","s","a","f","e">>, <<"u","n","s","i","z","e","d">>,
    <<"u","s","e">>, <<"v","i","r","t","u","a","l">>, <<"w","h","e","r","e">>,
    <<"w","h","i","l","e">>, <<"y","i","e","l","d">>
>>

\* const validChars = "abc...xyzABC...XYZ0123456789_"
validChars == <<
    "a","b","c","d","e","f","g","h","i","j","k","l","m","n","o","p","q","r","s","t","u","v","w","x","y","z",
    "A","B","C","D","E","F","G","H","I","J","K","L","M","N","O","P","Q","R","S","T","U","V","W","X","Y","Z",
    "0","1","2","3","4","5","6","7","8","9","_" >>

\* Array.prototype.includes
arrayIncludes(a, v) == \E i \in 1..Len(a) : a[i] = v

\* String.prototype.includes for an argument of length 0 or 1: the empty
\* string is included in every string.
stringIncludes(s, c) == c = "" \/ \E i \in 1..Len(s) : s[i] = c

\* String.prototype.charAt(0): the empty string when there is no character.
charAt0(s) == IF Len(s) = 0 THEN "" ELSE s[1]

\* the regular expression [A-Z]
isUpperCase(c) == \E i \in 27..52 : validChars[i] = c

\* faulty variant: the matched letter is not lowercased
toLowerCase_unchanged(c) == c

\* String.prototype.toLowerCase on one character
toLowerCase(c) ==
    IF isUpperCase(c) THEN validChars[(CHOOSE i \in 27..52 : validChars[i] = c) - 26] ELSE c

\* Array.from(input, c => validChars.includes(c) ? c : '_').join('')
replaceInvalid(s) == [i \in 1..Len(s) |-> IF stringIncludes(validChars, s[i]) THEN s[i] ELSE "_"]

\* result.replace(/[A-Z]/g, (match, offset) => offset === 0 ? lower : '_' + lower)
RECURSIVE snakeFrom(_, _)
snakeFrom(s, i) ==
    IF i > Len(s) THEN <<>>
    ELSE (IF isUpperCase(s[i])
          THEN (IF i = 1 THEN <<toLowerCase(s[i])>> ELSE <<"_", toLowerCase(s[i])>>)
          ELSE <<s[i]>>) \o snakeFrom(s, i + 1)

snakeCase(s) == snakeFrom(s, 1)

\* if (!validChars.includes(result.charAt(0))) result = `_${result}`
prefixIfInvalid(s) == IF ~stringIncludes(validChars, charAt0(s)) THEN <<"_">> \o s ELSE s

\* the statements of toValidRustName before the keyword loop
normalise(s) == prefixIfInvalid(snakeCase(replaceInvalid(s)))

\* faulty variant: only the first keyword is compared
isKeyword_firstOnly(s) == s = keywords[1]

\* the condition of the keyword loop: keywords.includes(result)
isKeyword(s) == arrayIncludes(keywords, s)

\* the body of the keyword loop: result += '_'
appendUnderscore(s) == s \o <<"_">>

\* while (keywords.includes(result)) result += '_'
RECURSIVE avoidKeywords(_)
avoidKeywords(s) == IF isKeyword(s) THEN avoidKeywords(appendUnderscore(s)) ELSE s

toValidRustName(s) == avoidKeywords(normalise(s))

\* namespace.replace(/@/g, '_').replace(/\./g, '_')
toRustCrateName(namespace) ==
    [i \in 1..Len(namespace) |-> IF namespace[i] \in {"@", "."} THEN "_" ELSE namespace[i]]

----------------------------------------------------------------------------
(* toValidRustName as a process: one step per loop iteration.              *)

\* characters of the strings the sanitizer is given
Alphabet == {"a", "s", "S", "1", "."}

RECURSIVE StringsUpTo(_, _)
StringsUpTo(S, n) ==
    IF n = 0 THEN {<<>>}
    ELSE LET shorter == StringsUpTo(S, n - 1)
         IN  shorter \cup {Append(s, c) : s \in {t \in shorter : Len(t) = n - 1}, c \in S}

\* new FileWriter(outputDirectory): no file open, nothing written
Idle == [fileName |-> <<>>, open |-> FALSE, buffer |-> <<>>, events |-> <<>>,
         misuse |-> FALSE, thrown |-> FALSE]

NoModelFile == [namespace |-> <<>>, imports |-> <<>>, declarations |-> <<>>]
NoNode == [caps |-> {}]

InitName ==
    /\ input \in StringsUpTo(Alphabet, MaxLen)
    /\ result = <<>>
    /\ npc = "start"
    /\ pc = "off"
    /\ ctx = Idle
    /\ namespaces = <<>>
    /\ idx = 0
    /\ modelFile = NoModelFile
    /\ didx = 0
    /\ dispatched = <<>>
    /\ node = NoNode

runVars == <<pc, ctx, namespaces, idx, modelFile, didx, dispatched, node>>

Normalise ==
    /\ npc = "start"
    /\ result' = normalise(input)
    /\ npc' = "loop"
    /\ UNCHANGED <<input, runVars>>

AppendUnderscore ==
    /\ npc = "loop"
    /\ isKeyword(result)
    /\ result' = appendUnderscore(result)
    /\ UNCHANGED <<input, npc, runVars>>

ReturnName ==
    /\ npc = "loop"
    /\ ~isKeyword(result)
    /\ npc' = "done"
    /\ UNCHANGED <<input, result, runVars>>

NextName == Normalise \/ AppendUnderscore \/ ReturnName

SpecName == InitName /\ [][NextName]_vars /\ WF_vars(NextName)

----------------------------------------------------------------------------
(* The file writer (parameters.fileWriter).  The record also carries the   *)
(* exception in flight: once `thrown` is set every later statement of the  *)
(* run is skipped, as the code has no try/catch.                           *)
(*   fileName, open : the unit being written                               *)
(*   buffer         : its lines so far; closeFile flushes them to the file *)
(*   events         : the openFile / closeFile calls made, in order        *)
(*   misuse         : a call was made in a state the interface forbids     *)

line(tabs, text) == [tabs |-> tabs, text |-> text]

event(op, name) == [op |-> op, name |-> name]

\* faulty variant: an unrecognised node is skipped silently
throw_skipped(w) == w

throw(w) == [w EXCEPT !.thrown = TRUE]

openFile(w, name) ==
    IF w.thrown THEN w
    ELSE IF w.open THEN [w EXCEPT !.misuse = TRUE, !.thrown = TRUE]
    ELSE [w EXCEPT !.fileName = name, !.open = TRUE, !.buffer = <<>>,
                   !.events = Append(@, event("open", name))]

writeLine(w, tabs, text) ==
    IF w.thrown THEN w
    ELSE IF ~w.open THEN [w EXCEPT !.misuse = TRUE, !.thrown = TRUE]
    ELSE [w EXCEPT !.buffer = Append(@, line(tabs, text))]

closeFile(w) ==
    IF w.thrown THEN w
    ELSE IF ~w.open THEN [w EXCEPT !.misuse = TRUE, !.thrown = TRUE]
    ELSE [w EXCEPT !.open = FALSE, !.fileName = <<>>, !.buffer = <<>>,
                   !.events = Append(@, event("close", w.fileName))]

RECURSIVE writeLines(_, _)
writeLines(w, ls) ==
    IF Len(ls) = 0 THEN w
    ELSE writeLines(writeLine(w, Head(ls).tabs, Head(ls).text), Tail(ls))

----------------------------------------------------------------------------
(* Type mapping and the declaration emitters.                              *)

toRustType(type) ==
    CASE type = "DateTime" -> <<"DateTime<Utc>">>
      [] type = "Boolean"  -> <<"bool">>
      [] type = "Long"     -> <<"u64">>
      [] type = "Double"   -> <<"f64">>
      [] OTHER             -> <<type>>

isDateField(type) == type = "DateTime"

\* String.prototype.replace('$', ''): removes the first '$' only
RECURSIVE removeFirstDollar(_)
removeFirstDollar(s) ==
    IF Len(s) = 0 THEN <<>>
    ELSE IF Head(s) = "$" THEN Tail(s)
    ELSE <<Head(s)>> \o removeFirstDollar(Tail(s))

\* faulty variant: the optional wrapper is applied before the array wrapper
fieldType_optionInside(field) ==
    LET base == toRustType(field.type)
        opt  == IF field.isOptional THEN <<"Option<">> \o base \o <<">">> ELSE base
    IN  IF field.isArray THEN <<"Vec<">> \o opt \o <<">">> ELSE opt

\* the type of a field: array wrapper first, optional wrapper around it
fieldType(field) ==
    LET base == toRustType(field.type)
        arr  == IF field.isArray THEN <<"Vec<">> \o base \o <<">">> ELSE base
    IN  IF field.isOptional THEN <<"Option<">> \o arr \o <<">">> ELSE arr

\* faulty variant: the hook pair does not depend on isOptional
dateHooks_plainOnly(field) ==
    IF isDateField(field.type)
    THEN << line(2, <<"serialize_with = \"serialize_datetime\",">>),
            line(2, <<"deserialize_with = \"deserialize_datetime\",">>) >>
    ELSE <<>>

\* the (de)serialization hook lines of a field
dateHooks(field) ==
    IF isDateField(field.type)
    THEN IF field.isOptional
         THEN << line(2, <<"serialize_with = \"serialize_datetime_option\",">>),
                 line(2, <<"deserialize_with = \"deserialize_datetime_option\",">>) >>
         ELSE << line(2, <<"serialize_with = \"serialize_datetime\",">>),
                 line(2, <<"deserialize_with = \"deserialize_datetime\",">>) >>
    ELSE <<>>

skipIfNone(field) ==
    IF field.isOptional
    THEN << line(2, <<"skip_serializing_if = \"Option::is_none\",">>) >>
    ELSE <<>>

visitField(field, w) ==
    writeLines(w,
        << line(1, <<"#[serde(">>),
           line(2, <<"rename = \"">> \o field.name \o <<"\",">>) >>
        \o skipIfNone(field)
        \o dateHooks(field)
        \o << line(1, <<")]">>),
              line(1, <<"pub ">> \o toValidRustName(removeFirstDollar(field.name))
                        \o <<": ">> \o fieldType(field) \o <<",">>) >>)

relationshipType(rel) ==
    LET base == <<rel.type>>
        arr  == IF rel.isArray THEN <<"Vec<">> \o base \o <<">">> ELSE base
    IN  IF rel.isOptional THEN <<"Option<">> \o arr \o <<">">> ELSE arr

visitRelationshipDeclaration(rel, w) ==
    writeLines(w,
        << line(1, <<"#[serde(rename = \"">> \o rel.name \o <<"\")]">>),
           line(1, <<"pub ">> \o toValidRustName(removeFirstDollar(rel.name))
                     \o <<": ">> \o relationshipType(rel) \o <<",">>) >>)

visitEnumValueDeclaration(enumValue, w) ==
    writeLine(w, 1, enumValue.name \o <<",">>)

visitScalarDeclaration(scalar, w) ==
    writeLine(w, 0, <<"scalarDeclaration - ">> \o scalar.name)

\* the synthetic first field of every class: { name: '$class', type: 'String' }
\* (it has no isArray / isOptional methods, so both tests are falsy)
classField == [caps |-> {}, name |-> <<"$", "c", "l", "a", "s", "s">>, type |-> "String",
               isArray |-> FALSE, isOptional |-> FALSE]

identifier == <<"i", "d", "e", "n", "t", "i", "f", "i", "e", "r">>

\* faulty variant: no property is filtered out
classProperties_unfiltered(decl) == decl.properties

\* getProperties().filter(property => !['identifier'].includes(property.name))
classProperties(decl) == SelectSeq(decl.properties, LAMBDA p : p.name # identifier)

RECURSIVE visit(_, _)
RECURSIVE visitProperties(_, _)
RECURSIVE visitOwnProperties(_, _)

\* properties.forEach(property => { writeLine(1, ''); property.accept(this, parameters) })
visitProperties(props, w) ==
    IF Len(props) = 0 THEN w
    ELSE visitProperties(Tail(props), visit(Head(props), writeLine(w, 1, <<>>)))

\* getOwnProperties().forEach(property => property.accept(this, parameters))
visitOwnProperties(props, w) ==
    IF Len(props) = 0 THEN w
    ELSE visitOwnProperties(Tail(props), visit(Head(props), w))

\* faulty variant: the declared properties are emitted before the discriminator
visitClassDeclaration_propertiesFirst(decl, w) ==
    LET w1 == writeLine(w, 0, <<"#[derive(Debug, Serialize, Deserialize)]">>)
        w2 == writeLine(w1, 0, <<"pub struct ">> \o decl.name \o <<" {">>)
        w3 == visitProperties(classProperties(decl), w2)
        w4 == visitField(classField, w3)
        w5 == writeLine(w4, 0, <<"}">>)
    IN  writeLine(w5, 0, <<>>)

visitClassDeclaration(decl, w) ==
    LET w1 == writeLine(w, 0, <<"#[derive(Debug, Serialize, Deserialize)]">>)
        w2 == writeLine(w1, 0, <<"pub struct ">> \o decl.name \o <<" {">>)
        w3 == visitField(classField, w2)
        w4 == visitProperties(classProperties(decl), w3)
        w5 == writeLine(w4, 0, <<"}">>)
    IN  writeLine(w5, 0, <<>>)

visitEnumDeclaration(decl, w) ==
    LET w1 == writeLine(w, 0, <<"#[derive(Debug, Serialize, Deserialize)]">>)
        w2 == writeLine(w1, 0, <<"pub enum ">> \o decl.name \o <<" {">>)
        w3 == visitOwnProperties(decl.ownProperties, w2)
    IN  writeLine(w3, 0, <<"}\n">>)

\* visit(thing, parameters) for a declaration or a property; the two first
\* branches (model manager, model file) are the actions of the run below.
visit(thing, w) ==
    IF w.thrown THEN w
    ELSE IF "isEnum" \in thing.caps THEN visitEnumDeclaration(thing, w)
    ELSE IF "isClassDeclaration" \in thing.caps THEN visitClassDeclaration(thing, w)
    ELSE IF "isTypeScalar" \in thing.caps THEN visitField(thing.scalarField, w)
    ELSE IF "isField" \in thing.caps THEN visitField(thing, w)
    ELSE IF "isRelationship" \in thing.caps THEN visitRelationshipDeclaration(thing, w)
    ELSE IF "isScalarDeclaration" \in thing.caps THEN visitScalarDeclaration(thing, w)
    ELSE IF "isEnumValue" \in thing.caps THEN visitEnumValueDeclaration(thing, w)
    ELSE throw(w)

----------------------------------------------------------------------------
(* The fixed content of the shared utility unit.                           *)

utilsLines == <<
    line(0, <<"use chrono::{ DateTime, TimeZone, Utc };">>),
    line(0, <<"use serde::{ Deserialize, Serialize, Deserializer, Serializer };">>),
    line(1, <<>>),
    line(0, <<"pub fn serialize_datetime_option<S>(datetime: &Option<chrono::DateTime<Utc>>, serializer: S) -> Result<S::Ok, S::Error>">>),
    line(0, <<"where">>),
    line(1, <<"S: Serializer,">>),
    line(0, <<"{">>),
    line(1, <<"match datetime {">>),
    line(2, <<"Some(dt) => {">>),
    line(3, <<"serialize_datetime(&dt, serializer)">>),
    line(2, <<"},">>),
    line(2, <<"_ => unreachable!(),">>),
    line(1, <<"}">>),
    line(0, <<"}">>),
    line(0, <<>>),
    line(0, <<"pub fn deserialize_datetime_option<'de, D>(deserializer: D) -> Result<Option<chrono::DateTime<Utc>>, D::Error>">>),
    line(0, <<"where">>),
    line(1, <<"D: Deserializer<'de>,">>),
    line(0, <<"{">>),
    line(1, <<"match deserialize_datetime(deserializer) {">>),
    line(2, <<"Ok(result)=>Ok(Some(result)),">>),
    line(2, <<"Err(error) => Err(error),">>),
    line(1, <<"}">>),
    line(0, <<"}">>),
    line(0, <<>>),
    line(0, <<"pub fn deserialize_datetime<'de, D>(deserializer: D) -> Result<chrono::DateTime<Utc>, D::Error>">>),
    line(0, <<"where">>),
    line(1, <<"D: Deserializer<'de>,">>),
    line(0, <<"{">>),
    line(1, <<"let datetime_str = String::deserialize(deserializer)?;">>),
    line(1, <<"Utc.datetime_from_str(&datetime_str, \"%Y-%m-%dT%H:%M:%S%.3fZ\").map_err(serde::de::Error::custom)">>),
    line(0, <<"}">>),
    line(1, <<>>),
    line(0, <<"pub fn serialize_datetime<S>(datetime: &chrono::DateTime<Utc>, serializer: S) -> Result<S::Ok, S::Error>">>),
    line(0, <<"where">>),
    line(1, <<"S: Serializer,">>),
    line(0, <<"{">>),
    line(1, <<"let datetime_str = datetime.format(\"%Y-%m-%dT%H:%M:%S%.3fZ\").to_string();">>),
    line(1, <<"serializer.serialize_str(&datetime_str)">>),
    line(0, <<"}">>)
>>

\* faulty variant: the shared utility unit is not emitted
addUtilsModelFile_skipped(w) == w

addUtilsModelFile(w) == closeFile(writeLines(openFile(w, <<"utils.rs">>), utilsLines))

----------------------------------------------------------------------------
(* The model graph handed to the visitor (the upstream model manager).     *)

RECURSIVE SeqsUpTo(_, _)
SeqsUpTo(S, n) ==
    IF n = 0 THEN {<<>>}
    ELSE LET shorter == SeqsUpTo(S, n - 1)
         IN  shorter \cup {Append(s, x) : s \in {t \in shorter : Len(t) = n - 1}, x \in S}

DistinctSeqsUpTo(S, n) ==
    {s \in SeqsUpTo(S, n) : \A i, j \in 1..Len(s) : s[i] = s[j] => i = j}

\* namespaces: "o.a", "oA", "b@1"
NsSet == { <<"o", ".", "a">>, <<"o", "A">>, <<"b", "@", "1">> }

\* import strings (fully qualified type names): "o.a.P", "o.a.Q", "b@1.P"
ImportSet == { <<"o", ".", "a", ".", "P">>, <<"o", ".", "a", ".", "Q">>,
               <<"b", "@", "1", ".", "P">> }

property(cap, name, type, isArray, isOptional) ==
    [caps |-> {cap}, name |-> name, type |-> type, isArray |-> isArray, isOptional |-> isOptional]

declaration(caps, name, properties) ==
    [caps |-> caps, name |-> name, properties |-> properties, ownProperties |-> properties]

\* concept Person identified by identifier { o String identifier  o DateTime dob optional }
Person == declaration({"isClassDeclaration"}, <<"Person">>,
              << property("isField", identifier, "String", FALSE, FALSE),
                 property("isField", <<"d", "o", "b">>, "DateTime", FALSE, TRUE) >>)

\* enum Color { o RED }   (an enum declaration is a class declaration too)
Color == declaration({"isEnum", "isClassDeclaration"}, <<"Color">>,
              << property("isEnumValue", <<"RED">>, "", FALSE, FALSE) >>)

\* scalar SSN extends String
SSN == declaration({"isScalarDeclaration"}, <<"SSN">>, <<>>)

\* a node no predicate of visit() recognises (e.g. a map declaration)
Dictionary == declaration({"isMapDeclaration"}, <<"Dictionary">>, <<>>)

DeclSet == {Person, Color, SSN, Dictionary}

\* ModelUtil.getNamespace(fqn): the part before the last '.', '' without one
getNamespace(fqn) ==
    LET dots == {i \in 1..Len(fqn) : fqn[i] = "."}
    IN  IF dots = {} THEN <<>>
        ELSE SubSeq(fqn, 1, (CHOOSE i \in dots : \A j \in dots : j <= i) - 1)

----------------------------------------------------------------------------
(* visitModelManager and visitModelFile.                                   *)

\* Array.prototype.indexOf for a value that is present
indexOf(a, v) == CHOOSE i \in 1..Len(a) : a[i] = v /\ \A j \in 1..(i - 1) : a[j] # v

\* .filter((v, i, a) => a.indexOf(v) === i)
RECURSIVE firstOccurrencesFrom(_, _)
firstOccurrencesFrom(a, i) ==
    IF i > Len(a) THEN <<>>
    ELSE (IF indexOf(a, a[i]) = i THEN <<a[i]>> ELSE <<>>) \o firstOccurrencesFrom(a, i + 1)

\* faulty variant: duplicates are kept
importedNamespaces_withDuplicates(mf) ==
    LET mapped == [i \in 1..Len(mf.imports) |-> getNamespace(mf.imports[i])]
    IN  SelectSeq(mapped, LAMBDA n : n # mf.namespace)

\* getImports().map(getNamespace).filter(not own namespace).filter(first occurrence)
importedNamespaces(mf) ==
    LET mapped == [i \in 1..Len(mf.imports) |-> getNamespace(mf.imports[i])]
        others == SelectSeq(mapped, LAMBDA n : n # mf.namespace)
    IN  firstOccurrencesFrom(others, 1)

importLines(nss) ==
    [i \in 1..Len(nss) |-> line(0, <<"use crate::">> \o toValidRustName(nss[i]) \o <<"::*;">>)]

openManifest(w) == openFile(w, <<"lib.rs">>)

writeModuleReference(namespace, w) ==
    writeLine(w, 0, <<"pub mod ">> \o toValidRustName(namespace) \o <<";">>)

\* faulty variant: the manifest does not reference the utility module
writeUtilsReference_omitted(w) == w

writeUtilsReference(w) == writeLine(w, 0, <<"pub mod utils;">>)

\* faulty variant: the manifest is left open
closeManifest_leftOpen(w) == w

closeManifest(w) == closeFile(w)

\* faulty variant: the file name is derived with toRustCrateName
openModelFile_crateName(mf, w) ==
    LET w1 == openFile(w, toRustCrateName(mf.namespace) \o <<".rs">>)
        w2 == writeLines(w1, << line(0, <<"use serde::{ Deserialize, Serialize };">>),
                                line(0, <<"use chrono::{ DateTime, TimeZone, Utc };">>),
                                line(1, <<>>) >>)
        w3 == writeLines(w2, importLines(importedNamespaces(mf)))
    IN  writeLines(w3, << line(0, <<"use crate::utils::*;">>), line(1, <<>>) >>)

\* visitModelFile up to the declarations
openModelFile(mf, w) ==
    LET w1 == openFile(w, toValidRustName(mf.namespace) \o <<".rs">>)
        w2 == writeLines(w1, << line(0, <<"use serde::{ Deserialize, Serialize };">>),
                                line(0, <<"use chrono::{ DateTime, TimeZone, Utc };">>),
                                line(1, <<>>) >>)
        w3 == writeLines(w2, importLines(importedNamespaces(mf)))
    IN  writeLines(w3, << line(0, <<"use crate::utils::*;">>), line(1, <<>>) >>)

closeModelFile(w) == closeFile(w)

\* where the run continues: an exception leaves visitModelManager
after(w, next) == IF w.thrown THEN "failed" ELSE next

nameVars == <<input, result, npc>>

Init ==
    /\ namespaces \in DistinctSeqsUpTo(NsSet, MaxFiles)
    /\ pc = "mm_start"
    /\ ctx = Idle
    /\ idx = 0
    /\ modelFile = NoModelFile
    /\ didx = 0
    /\ dispatched = <<>>
    /\ node = NoNode
    /\ input = <<>>
    /\ result = <<>>
    /\ npc = "off"

OpenManifest ==
    /\ pc = "mm_start"
    /\ ctx' = openManifest(ctx)
    /\ idx' = 1
    /\ pc' = after(ctx', "mm_namespaces")
    /\ UNCHANGED <<namespaces, modelFile, didx, dispatched, node, nameVars>>

WriteModuleReference ==
    /\ pc = "mm_namespaces"
    /\ idx <= Len(namespaces)
    /\ ctx' = writeModuleReference(namespaces[idx], ctx)
    /\ idx' = idx + 1
    /\ pc' = after(ctx', "mm_namespaces")
    /\ UNCHANGED <<namespaces, modelFile, didx, dispatched, node, nameVars>>

WriteUtilsReference ==
    /\ pc = "mm_namespaces"
    /\ idx > Len(namespaces)
    /\ ctx' = writeUtilsReference(ctx)
    /\ pc' = after(ctx', "mm_close")
    /\ UNCHANGED <<namespaces, idx, modelFile, didx, dispatched, node, nameVars>>

CloseManifest ==
    /\ pc = "mm_close"
    /\ ctx' = closeManifest(ctx)
    /\ pc' = after(ctx', "mm_utils")
    /\ UNCHANGED <<namespaces, idx, modelFile, didx, dispatched, node, nameVars>>

AddUtilsModelFile ==
    /\ pc = "mm_utils"
    /\ ctx' = addUtilsModelFile(ctx)
    /\ idx' = 1
    /\ pc' = after(ctx', "mm_files")
    /\ UNCHANGED <<namespaces, modelFile, didx, dispatched, node, nameVars>>

\* getModelFiles(true) enumerates the model files in the order of getNamespaces()
VisitModelFile ==
    /\ pc = "mm_files"
    /\ idx <= Len(namespaces)
    /\ \E imports \in SeqsUpTo(ImportSet, MaxImports), declarations \in SeqsUpTo(DeclSet, MaxDecls) :
          modelFile' = [namespace |-> namespaces[idx], imports |-> imports,
                        declarations |-> declarations]
    /\ ctx' = openModelFile(modelFile', ctx)
    /\ didx' = 1
    /\ dispatched' = <<>>
    /\ pc' = after(ctx', "mf_declarations")
    /\ UNCHANGED <<namespaces, idx, node, nameVars>>

DispatchDeclaration ==
    /\ pc = "mf_declarations"
    /\ didx <= Len(modelFile.declarations)
    /\ node' = modelFile.declarations[didx]
    /\ dispatched' = Append(dispatched, node')
    /\ ctx' = visit(node', ctx)
    /\ didx' = didx + 1
    /\ pc' = after(ctx', "mf_declarations")
    /\ UNCHANGED <<namespaces, idx, modelFile, nameVars>>

CloseModelFile ==
    /\ pc = "mf_declarations"
    /\ didx > Len(modelFile.declarations)
    /\ ctx' = closeModelFile(ctx)
    /\ idx' = idx + 1
    /\ pc' = after(ctx', "mm_files")
    \* visitModelFile returns: its locals are gone
    /\ modelFile' = NoModelFile
    /\ didx' = 0
    /\ dispatched' = <<>>
    /\ node' = NoNode
    /\ UNCHANGED <<namespaces, nameVars>>

ReturnFromModelManager ==
    /\ pc = "mm_files"
    /\ idx > Len(namespaces)
    /\ pc' = "done"
    /\ UNCHANGED <<ctx, namespaces, idx, modelFile, didx, dispatched, node, nameVars>>

Next ==
    \/ OpenManifest
    \/ WriteModuleReference
    \/ WriteUtilsReference
    \/ CloseManifest
    \/ AddUtilsModelFile
    \/ VisitModelFile
    \/ DispatchDeclaration
    \/ CloseModelFile
    \/ ReturnFromModelManager

Spec == Init /\ [][Next]_vars

----------------------------------------------------------------------------
(* Emission of one class declaration or one property into an open unit.    *)

PropNames == { identifier, <<"d", "o", "b">> }

\* properties of the class declarations
ClassPropSet ==
    { property(cap, name, type, isArray, isOptional) :
        cap \in {"isField", "isRelationship"}, name \in PropNames,
        type \in {"DateTime", "String"}, isArray \in BOOLEAN, isOptional \in BOOLEAN }

ClassSet == { declaration({"isClassDeclaration"}, <<"Person">>, props) :
                props \in SeqsUpTo(ClassPropSet, MaxProps) }

\* properties dispatched on their own
PropSet ==
    { property(cap, name, type, isArray, isOptional) :
        cap \in {"isField", "isRelationship"}, name \in PropNames,
        type \in {"DateTime", "String", "Boolean", "Long", "Double", "Person"},
        isArray \in BOOLEAN, isOptional \in BOOLEAN }

InitEmit ==
    /\ node \in ClassSet \cup PropSet
    /\ ctx = openFile(Idle, <<"o_a.rs">>)
    /\ pc = "emit"
    /\ namespaces = <<>>
    /\ idx = 0
    /\ modelFile = NoModelFile
    /\ didx = 0
    /\ dispatched = <<>>
    /\ input = <<>>
    /\ result = <<>>
    /\ npc = "off"

EmitDeclaration ==
    /\ pc = "emit"
    /\ "isClassDeclaration" \in node.caps
    /\ ctx' = visit(node, ctx)
    /\ pc' = after(ctx', "emitted")
    /\ UNCHANGED <<namespaces, idx, modelFile, didx, dispatched, node, nameVars>>

EmitProperty ==
    /\ pc = "emit"
    /\ "isClassDeclaration" \notin node.caps
    /\ ctx' = visit(node, ctx)
    /\ pc' = after(ctx', "emitted")
    /\ UNCHANGED <<namespaces, idx, modelFile, didx, dispatched, node, nameVars>>

NextEmit == EmitDeclaration \/ EmitProperty

SpecEmit == InitEmit /\ [][NextEmit]_vars

----------------------------------------------------------------------------
(* Properties of the run (specification Spec).                             *)

\* C1: the calls on the file writer follow (openFile writeLine* closeFile)*:
\* no call is made in a state the writer's interface forbids, openFile and
\* closeFile alternate on the same unit, a unit is open exactly between an
\* openFile and its closeFile, and no unit is open when visitModelManager
\* has returned.
C1_WriterProtocol ==
    /\ ~ctx.misuse
    /\ \A i \in 1..Len(ctx.events) :
          /\ ctx.events[i].op = (IF i % 2 = 1 THEN "open" ELSE "close")
          /\ (i % 2 = 0 => ctx.events[i].name = ctx.events[i - 1].name)
    /\ ctx.open <=> (Len(ctx.events) % 2 = 1)
    /\ (pc = "done" => ~ctx.open)

\* a run over two namespaces has returned: four units were opened and closed
C1_Witness == pc = "done" /\ Len(namespaces) = 2 /\ Len(ctx.events) = 8

\* C2: the units are produced in the order lib.rs, utils.rs, namespace units:
\* the first four openFile/closeFile calls are open lib.rs, close lib.rs,
\* open utils.rs, close utils.rs, and a namespace unit is only open after them.
C2_UnitOrder ==
    LET first == << event("open", <<"lib.rs">>), event("close", <<"lib.rs">>),
                    event("open", <<"utils.rs">>), event("close", <<"utils.rs">>) >>
    IN  /\ \A i \in 1..Len(ctx.events) : i <= 4 => ctx.events[i] = first[i]
        /\ (pc = "mf_declarations" => ctx.open /\ Len(ctx.events) >= 5)

\* the second namespace unit is open
C2_Witness == pc = "mf_declarations" /\ idx = 2 /\ ctx.open

\* C3: when the manifest is closed it holds one `pub mod <name>;` line per namespace of
\* getNamespaces(), in that order, then the line `pub mod utils;`, and no
\* other line.
C3_ManifestContent ==
    pc = "mm_close" =>
        /\ ctx.fileName = <<"lib.rs">>
        /\ Len(ctx.buffer) = Len(namespaces) + 1
        /\ \A i \in 1..Len(namespaces) :
              ctx.buffer[i] =
                  line(0, <<"pub mod ">> \o toValidRustName(namespaces[i]) \o <<";">>)
        /\ ctx.buffer[Len(namespaces) + 1] = line(0, <<"pub mod utils;">>)

\* the manifest of a model manager with two namespaces is about to be closed
C3_Witness == pc = "mm_close" /\ Len(namespaces) = 2 /\ Len(ctx.buffer) = 3

\* position of the first import of namespace ns in the imports of mf
firstImportOf(mf, ns) ==
    CHOOSE i \in 1..Len(mf.imports) :
        /\ getNamespace(mf.imports[i]) = ns
        /\ \A j \in 1..(i - 1) : getNamespace(mf.imports[j]) # ns

C12_CrateNameUsed ==
    /\ (pc = "mf_declarations" =>
            ctx.fileName = toRustCrateName(modelFile.namespace) \o <<".rs">>)
    /\ (pc = "mm_close" =>
            \A i \in 1..Len(namespaces) :
                ctx.buffer[i] = line(0, <<"pub mod ">> \o toRustCrateName(namespaces[i]) \o <<";">>))

\* C12 as amended: the unit file name and the module name in the manifest
\* are the namespace passed through toValidRustName, the sanitizer of member
\* names: namespace "oA" gives unit "o_a.rs" and module "o_a".
C12_SanitizerUsed ==
    /\ (pc = "mf_declarations" =>
            /\ ctx.fileName = toValidRustName(modelFile.namespace) \o <<".rs">>
            /\ (modelFile.namespace = <<"o", "A">> => ctx.fileName = <<"o", "_", "a", ".rs">>)
            /\ (modelFile.namespace = <<"b", "@", "1">> => ctx.fileName = <<"b", "_", "1", ".rs">>))
    /\ (pc = "mm_close" =>
            \A i \in 1..Len(namespaces) :
                /\ ctx.buffer[i] = line(0, <<"pub mod ">> \o toValidRustName(namespaces[i]) \o <<";">>)
                /\ (namespaces[i] = <<"o", "A">> =>
                        ctx.buffer[i] = line(0, <<"pub mod ", "o", "_", "a", ";">>)))

\* the unit of namespace "oA" is open under the name "o_a.rs"
C12_Witness ==
    pc = "mf_declarations" /\ modelFile.namespace = <<"o", "A">>
        /\ ctx.fileName = <<"o", "_", "a", ".rs">>

\* a node that visit() hands to visitScalarDeclaration
isScalarDeclaration(n) ==
    /\ "isScalarDeclaration" \in n.caps
    /\ n.caps \cap {"isEnum", "isClassDeclaration", "isTypeScalar", "isField", "isRelationship"} = {}

\* C13: dispatching a scalar declaration appends no line to the open unit
\* and leaves the file writer as it was.
C13_ScalarNoOp ==
    [][ (pc = "mf_declarations" /\ didx' = didx + 1 /\ isScalarDeclaration(node'))
            => ctx' = ctx ]_vars

\* a node for which no predicate tested by visit() holds
isUnrecognised(n) ==
    n.caps \cap {"isModelManager", "isModelFile", "isEnum", "isClassDeclaration", "isTypeScalar",
                 "isField", "isRelationship", "isScalarDeclaration", "isEnumValue"} = {}

\* C14: dispatching a node that no predicate recognises raises an error and
\* writes nothing; once the error is raised the run is over: no line is
\* written, no declaration is dispatched and no unit is opened or closed.
C14_UnrecognisedIsFatal ==
    /\ [][ (pc = "mf_declarations" /\ didx' = didx + 1 /\ isUnrecognised(node'))
              => (pc' = "failed" /\ ctx'.thrown /\ ctx'.buffer = ctx.buffer
                    /\ ctx'.events = ctx.events) ]_vars
    /\ [][ pc = "failed" => (pc' = "failed" /\ ctx' = ctx /\ dispatched' = dispatched) ]_vars
    /\ [](ctx.thrown => pc = "failed")

\* the run failed in the first of two namespace units, on the first of two
\* declarations
C14_Witness ==
    /\ pc = "failed" /\ ctx.thrown
    /\ idx = 1 /\ Len(namespaces) = 2
    /\ Len(dispatched) = 1 /\ Len(modelFile.declarations) = 2
    /\ isUnrecognised(node)

\* C16: no unit is open when control has left visitModelFile and
\* visitModelManager, whether by a normal return or by an error raised while
\* a declaration was being emitted.
C16_ClosedOnEveryExit == pc \in {"done", "failed"} => ~ctx.open

\* C17: within one run no two namespaces get the same unit file name or the
\* same module name in the manifest: no namespace unit is opened twice under
\* one name.
C17_DistinctUnitNames ==
    /\ \A i, j \in 5..Len(ctx.events) :
          (i < j /\ ctx.events[i].op = "open" /\ ctx.events[j].op = "open")
              => ctx.events[i].name # ctx.events[j].name
    /\ (pc = "mm_close" =>
            \A i, j \in 1..Len(namespaces) : i < j => ctx.buffer[i] # ctx.buffer[j])

----------------------------------------------------------------------------
(* Properties of the emitters (specification SpecEmit).                    *)

isClass(n) == "isClassDeclaration" \in n.caps

\* the rename annotation of a member: `rename = "<name>",` (field) or
\* `#[serde(rename = "<name>")]` (relationship)
isRenameLine(l) ==
    /\ Len(l.text) >= 2
    /\ \/ l.tabs = 2 /\ l.text[1] = "rename = \""
       \/ l.tabs = 1 /\ l.text[1] = "#[serde(rename = \""

renamedAs(l) == SubSeq(l.text, 2, Len(l.text) - 1)

\* the member line: `pub <name>: <type>,`
isMemberLine(l) == l.tabs = 1 /\ Len(l.text) >= 1 /\ l.text[1] = "pub "

memberType(l) ==
    LET colon == CHOOSE i \in 1..Len(l.text) : l.text[i] = ": "
    IN  SubSeq(l.text, colon + 1, Len(l.text) - 1)

\* C5: the first member of every class record is the discriminator field:
\* rename "$class", member `class` of type String, no skip-if-none line, no
\* array or optional wrapper; no other member precedes it.
C5_DiscriminatorFirst ==
    (pc = "emitted" /\ isClass(node)) =>
        /\ Len(ctx.buffer) >= 6
        /\ ctx.buffer[1] = line(0, <<"#[derive(Debug, Serialize, Deserialize)]">>)
        /\ ctx.buffer[2] = line(0, <<"pub struct ", "Person", " {">>)
        /\ ctx.buffer[3] = line(1, <<"#[serde(">>)
        /\ ctx.buffer[4] = line(2, <<"rename = \"", "$", "c", "l", "a", "s", "s", "\",">>)
        /\ ctx.buffer[5] = line(1, <<")]">>)
        /\ ctx.buffer[6] = line(1, <<"pub ", "c", "l", "a", "s", "s", ": ", "String", ",">>)
        /\ \A i \in 1..Len(ctx.buffer) :
              (isRenameLine(ctx.buffer[i]) \/ isMemberLine(ctx.buffer[i])) => i >= 4

\* a class with two declared properties has been emitted
C5_Witness == pc = "emitted" /\ isClass(node) /\ Len(node.properties) = 2

isProperty(n) == "isField" \in n.caps \/ "isRelationship" \in n.caps

\* C7: the type of a field or relationship is Option<Vec<Base>> with both
\* flags, Vec<Base> with isArray only, Option<Base> with isOptional only and
\* Base with none.
C7_WrappingOrder ==
    (pc = "emitted" /\ isProperty(node)) =>
        LET base == IF "isField" \in node.caps THEN toRustType(node.type) ELSE <<node.type>>
            type == memberType(ctx.buffer[Len(ctx.buffer)])
        IN  /\ isMemberLine(ctx.buffer[Len(ctx.buffer)])
            /\ (node.isArray /\ node.isOptional => type = <<"Option<", "Vec<">> \o base \o <<">", ">">>)
            /\ (node.isArray /\ ~node.isOptional => type = <<"Vec<">> \o base \o <<">">>)
            /\ (~node.isArray /\ node.isOptional => type = <<"Option<">> \o base \o <<">">>)
            /\ (~node.isArray /\ ~node.isOptional => type = base)

\* an optional array field has been emitted
C7_Witness ==
    pc = "emitted" /\ "isField" \in node.caps /\ node.isArray /\ node.isOptional

occurrences(ls, l) == Cardinality({i \in 1..Len(ls) : ls[i] = l})

\* C8: visitField emits the optional hook pair exactly for an optional
\* DateTime field, the plain pair exactly for a required DateTime field, no
\* hook line for another type, and the skip-if-none line exactly for an
\* optional field.
C8_DateTimeHooks ==
    (pc = "emitted" /\ "isField" \in node.caps) =>
        LET n(text) == occurrences(ctx.buffer, line(2, <<text>>))
            hooks   == {i \in 1..Len(ctx.buffer) :
                           ctx.buffer[i].text # <<>> /\
                           ctx.buffer[i].text[1] \in
                               { "serialize_with = \"serialize_datetime_option\",",
                                 "deserialize_with = \"deserialize_datetime_option\",",
                                 "serialize_with = \"serialize_datetime\",",
                                 "deserialize_with = \"deserialize_datetime\"," }}
            opt     == IF node.type = "DateTime" /\ node.isOptional THEN 1 ELSE 0
            plain   == IF node.type = "DateTime" /\ ~node.isOptional THEN 1 ELSE 0
        IN  /\ n("serialize_with = \"serialize_datetime_option\",") = opt
            /\ n("deserialize_with = \"deserialize_datetime_option\",") = opt
            /\ n("serialize_with = \"serialize_datetime\",") = plain
            /\ n("deserialize_with = \"deserialize_datetime\",") = plain
            /\ Cardinality(hooks) = 2 * (opt + plain)
            /\ n("skip_serializing_if = \"Option::is_none\",") = (IF node.isOptional THEN 1 ELSE 0)

\* an optional DateTime field has been emitted
C8_Witness ==
    pc = "emitted" /\ "isField" \in node.caps /\ node.type = "DateTime" /\ node.isOptional

----------------------------------------------------------------------------
(* Properties of toValidRustName (specification SpecName).                 *)

isLowerCase(c) == \E i \in 1..26 : validChars[i] = c
isDigit(c) == \E i \in 53..62 : validChars[i] = c

\* the regular expression ^[a-z_][a-z0-9_]*$
isRustIdentifier(s) ==
    /\ Len(s) >= 1
    /\ isLowerCase(s[1]) \/ s[1] = "_"
    /\ \A i \in 2..Len(s) : isLowerCase(s[i]) \/ isDigit(s[i]) \/ s[i] = "_"

\* C9: the name returned by toValidRustName matches [a-z_][a-z0-9_]*.
C9_LegalIdentifier == npc = "done" => isRustIdentifier(result)

\* C10: the keyword loop of toValidRustName terminates, and the name it
\* returns is not in the keyword list.
C10_KeywordFree ==
    /\ <>(npc = "done")
    /\ [](npc = "done" => ~(\E i \in 1..Len(keywords) : keywords[i] = result))

\* "as" collided with a keyword and was returned as "as_"
C10_Witness == npc = "done" /\ input = <<"a", "s">> /\ result = <<"a", "s", "_">>

\* C11: toValidRustName is idempotent: applying it to the name it returned
\* gives that name again.
C11_Idempotent == npc = "done" => toValidRustName(result) = result

\* "aS" was returned as "a_s", a name the first application had to change
C11_Witness == npc = "done" /\ input = <<"a", "S">> /\ result = <<"a", "_", "s">>

====
